---- MODULE Spec2Model ----
(***************************************************************************)
(* State-machine model of director's viewerclient.py: the lazy scene tree  *)
(* (LazyTree), the pending-change queue (CommandQueue) and the core        *)
(* synchronizer (CoreVisualizer) with its publish and response handling.   *)
(***************************************************************************)
EXTENDS Integers, Sequences, FiniteSets, TLC

\* ------------------------------------------------------------------ bounds
\* Number of events in one behaviour: client calls, responses received and
\* changes of the transport's state.
MaxOps == 3

\* ------------------------------------------------------------------ values
\* Paths the client addresses.  <<"">> is a malformed path: its only segment
\* is empty (the path of Visualizer()[""]); nothing in the code rejects it.
RootPath == <<>>
BadPath == <<"">>
WellFormedPaths == {<<>>, <<"a">>, <<"a", "b">>}
Paths == WellFormedPaths \cup {BadPath}

\* Transforms: a 4x4 homogeneous matrix is represented by its translation and
\* rotation parts; Identity is np.eye(4).
Identity == [translation |-> 0, rotation |-> 0]
TformA == [translation |-> 1, rotation |-> 0]
TformB == [translation |-> 0, rotation |-> 1]
DrawTransforms == {TformA, TformB}

serialize_transform(tform) ==
    [translation |-> tform.translation, quaternion |-> tform.rotation]

\* Geometry values.  A value of a PrimitiveTypes type is a BaseGeometry
\* (it has serialize()); "junk" is any other object.
PrimitiveTypes == {"box", "sphere", "ellipsoid", "cylinder", "triad"}

GeometryData(geometry) ==
    [isGeometryData |-> TRUE, geometry |-> geometry,
     color |-> "white", transform |-> Identity]

Bare(geometry) ==
    [isGeometryData |-> FALSE, geometry |-> geometry,
     color |-> "none", transform |-> Identity]

\* Arguments a caller passes to load(): a single BaseGeometry, an Iterable
\* of items, or any other single object.
GeomInputs ==
    { [kind |-> "BaseGeometry", items |-> <<Bare("box")>>],
      [kind |-> "Iterable", items |-> << >>],
      [kind |-> "Other", items |-> <<Bare("junk")>>] }

NoGeomInput == [kind |-> "None", items |-> << >>]

\* GeometryData.serialize: fails (AttributeError) when the wrapped object has
\* no serialize method.
CanSerialize(geom) == geom.geometry \in PrimitiveTypes

GeometryData_serialize(geom) ==
    [type |-> geom.geometry, color |-> geom.color,
     transform |-> serialize_transform(geom.transform)]

\* ------------------------------------------------------------------ LazyTree
\* The tree is the function from the paths of its existing nodes to their
\* fields; the root <<>> always exists.
NewNode == [geometries |-> << >>, transform |-> Identity]
NewTree == [p \in {RootPath} |-> NewNode]

Prefixes(path) == {SubSeq(path, 1, n) : n \in 0..Len(path)}

IsPrefix(p, q) == Len(p) <= Len(q) /\ SubSeq(q, 1, Len(p)) = p

\* defaultdict children of the node at path: the keys present.
Children(tree, path) ==
    {q[Len(q)] : q \in {r \in DOMAIN tree : Len(r) = Len(path) + 1 /\ IsPrefix(path, r)}}

\* Mutant: only the addressed node is created, not the nodes on the way.
getdescendant_leafOnly(tree, path) ==
    [q \in DOMAIN tree \cup {path} |-> IF q \in DOMAIN tree THEN tree[q] ELSE NewNode]

\* t[p] step by step from the root: every missing node on the way is created.
getdescendant(tree, path) ==
    [q \in DOMAIN tree \cup Prefixes(path) |->
        IF q \in DOMAIN tree THEN tree[q] ELSE NewNode]

RECURSIVE descendantsFrom(_, _)
descendantsFrom(tree, prefix) ==
    UNION { {Append(prefix, key)} \cup descendantsFrom(tree, Append(prefix, key)) :
            key \in Children(tree, prefix) }

descendants(tree) == descendantsFrom(tree, RootPath)

\* Every path of the set reached with getdescendant.
getdescendants(tree, paths) ==
    [q \in DOMAIN tree \cup UNION {Prefixes(p) : p \in paths} |->
        IF q \in DOMAIN tree THEN tree[q] ELSE NewNode]

\* del t.children[name]: the child and everything below it goes.
delChild(tree, path) ==
    [q \in {r \in DOMAIN tree : ~IsPrefix(path, r)} |-> tree[q]]

\* ------------------------------------------------------------------ CommandQueue
EmptyQueue == [draw |-> {}, load |-> {}, delete |-> {}]

isempty(queue) == ~(queue.draw # {} \/ queue.load # {} \/ queue.delete # {})

empty(queue) == EmptyQueue

\* ------------------------------------------------------------------ publish
EmptyMsg == [delete |-> {}, load |-> {}, draw |-> {}]

\* Load-marked paths whose stored geometry list holds an item that cannot be
\* serialized.
Unserializable(tree, queue) ==
    {p \in queue.load \cap DOMAIN tree :
        \E i \in 1..Len(tree[p].geometries) : ~CanSerialize(tree[p].geometries[i])}

\* Mutant: every load-marked path gets a load record, empty or not.
serialize_ok_allLoads(tree, queue) ==
    LET t1 == getdescendants(tree, queue.load)
        t2 == getdescendants(t1, queue.draw)
    IN  [tree |-> t2,
         err |-> "none",
         walked |-> queue.load \cup queue.draw,
         data |->
           [delete |-> {[path |-> p] : p \in queue.delete},
            load |-> {[path |-> p,
                       geometries |-> [i \in 1..Len(t1[p].geometries) |->
                                         GeometryData_serialize(t1[p].geometries[i])]] :
                      p \in queue.load},
            draw |-> {[path |-> p, transform |-> serialize_transform(t2[p].transform)] :
                      p \in queue.draw}]]

\* serialize_queue when every geometry serializes: the message, and the tree
\* after the getdescendant walks of the load and draw loops.
serialize_ok(tree, queue) ==
    LET t1 == getdescendants(tree, queue.load)
        t2 == getdescendants(t1, queue.draw)
    IN  [tree |-> t2,
         err |-> "none",
         walked |-> queue.load \cup queue.draw,
         data |->
           [delete |-> {[path |-> p] : p \in queue.delete},
            load |-> {[path |-> p,
                       geometries |-> [i \in 1..Len(t1[p].geometries) |->
                                         GeometryData_serialize(t1[p].geometries[i])]] :
                      p \in {q \in queue.load : t1[q].geometries # << >>}},
            draw |-> {[path |-> p, transform |-> serialize_transform(t2[p].transform)] :
                      p \in queue.draw}]]

\* serialize_queue: the outcomes.  When a geometry cannot be serialized the
\* load loop raises at it; the set's iteration order decides which other
\* load-marked paths were walked before.
serialize_queue(tree, queue) ==
    IF Unserializable(tree, queue) = {}
    THEN {serialize_ok(tree, queue)}
    ELSE {[tree |-> getdescendants(tree, S), err |-> "AttributeError",
           walked |-> S, data |-> EmptyMsg] :
          S \in SUBSET (queue.load \ Unserializable(tree, queue))}

\* Mutant: the queue is cleared before the send, so also when the send fails.
publish_clearsOnFailure(tree, queue, sendOk) ==
    IF isempty(queue)
    THEN {[tree |-> tree, queue |-> queue, err |-> "none", sent |-> 0,
           msg |-> EmptyMsg, walked |-> {}]}
    ELSE {IF s.err # "none"
            THEN [tree |-> s.tree, queue |-> queue, err |-> s.err, sent |-> 0,
                  msg |-> EmptyMsg, walked |-> s.walked]
          ELSE IF ~sendOk
            THEN [tree |-> s.tree, queue |-> empty(queue), err |-> "IOError", sent |-> 0,
                  msg |-> s.data, walked |-> s.walked]
          ELSE [tree |-> s.tree, queue |-> empty(queue), err |-> "none", sent |-> 1,
                msg |-> s.data, walked |-> s.walked] :
          s \in serialize_queue(tree, queue)}

\* publish: outcomes [tree, queue, err, sent, msg, walked]; sendOk is whether
\* the transport's publish succeeds.
publish(tree, queue, sendOk) ==
    IF isempty(queue)
    THEN {[tree |-> tree, queue |-> queue, err |-> "none", sent |-> 0,
           msg |-> EmptyMsg, walked |-> {}]}
    ELSE {IF s.err # "none"
            THEN [tree |-> s.tree, queue |-> queue, err |-> s.err, sent |-> 0,
                  msg |-> EmptyMsg, walked |-> s.walked]
          ELSE IF ~sendOk
            THEN [tree |-> s.tree, queue |-> queue, err |-> "IOError", sent |-> 0,
                  msg |-> s.data, walked |-> s.walked]
          ELSE [tree |-> s.tree, queue |-> empty(queue), err |-> "none", sent |-> 1,
                msg |-> s.data, walked |-> s.walked] :
          s \in serialize_queue(tree, queue)}

_maybe_publish(tree, queue, immediately, sendOk) ==
    IF immediately
    THEN publish(tree, queue, sendOk)
    ELSE {[tree |-> tree, queue |-> queue, err |-> "none", sent |-> 0,
           msg |-> EmptyMsg, walked |-> {}]}

\* ------------------------------------------------------------------ state
VARIABLES
    tree,                 \* CoreVisualizer.tree
    queue,                \* CoreVisualizer.queue
    publish_immediately,  \* CoreVisualizer.publish_immediately
    handler_thread,       \* "none", "running", or "dead" (the loop has exited)
    last,                 \* the last call: its arguments and what it did
    nops,                 \* calls, responses and transport changes so far
    link_up,              \* whether the transport's publish succeeds now
    walked,               \* history: paths reached by getdescendant, not since deleted
    targeted,             \* history: load/draw targets not since deleted
    resync,               \* history: status = 1 marks not yet in a sent message
    twice,                \* history: two draws of one path in a row, then a publish
    fg,                   \* foreground position inside publish (interleaved runs)
    bg,                   \* listener position inside _handle_response (interleaved runs)
    lost,                 \* history: status = 1 marks cleared without being sent
    handles,              \* the Visualizer handles the client holds
    started               \* history: listener threads started so far

vars == <<tree, queue, publish_immediately, handler_thread, last, nops, link_up,
          walked, targeted, resync, twice, fg, bg, lost, handles, started>>

NoCall ==
    [op |-> "none", path |-> RootPath, geom |-> NoGeomInput, tform |-> Identity,
     status |-> 0, immediate |-> TRUE, pending |-> {}, thread |-> "none",
     err |-> "none", sent |-> 0, msg |-> EmptyMsg]

NoTwice ==
    [stage |-> "none", path |-> RootPath, first |-> Identity, second |-> Identity,
     batched |-> FALSE]

\* Visualizer.__init__ with a tuple path: the given core, or a CoreVisualizer
\* of its own when none is given.
TheCore == "core"
NoCore == "None"
Visualizer(path, core) ==
    [core |-> IF core = NoCore THEN "another core" ELSE core, path |-> path]

FgIdle == [pc |-> "idle", data |-> EmptyMsg]
BgIdle == [pc |-> "idle", todo |-> {}]

\* CoreVisualizer.__init__
Init ==
    /\ tree = NewTree
    /\ queue = EmptyQueue
    /\ publish_immediately = TRUE
    /\ handler_thread = "none"
    /\ last = NoCall
    /\ nops = 0
    /\ link_up = TRUE
    /\ walked = {}
    /\ targeted = {}
    /\ resync = {}
    /\ twice = NoTwice
    /\ fg = FgIdle
    /\ bg = BgIdle
    /\ lost = {}
    /\ handles = {Visualizer(RootPath, TheCore)}
    /\ started = 0

Below(path, paths) == {q \in paths : IsPrefix(path, q)}

DrawPaths(msg) == {r.path : r \in msg.draw}
LoadPaths(msg) == {r.path : r \in msg.load}
DeletePaths(msg) == {r.path : r \in msg.delete}

\* ------------------------------------------------------------------ mutations
\* CoreVisualizer.load: the three argument shapes.
load_normalize(geomdata) ==
    IF geomdata.kind = "BaseGeometry"
    THEN <<GeometryData(geomdata.items[1].geometry)>>
    ELSE geomdata.items

\* Mutant: a load also resets the node's transform.
_load_resetsTransform(t, q, path, geoms) ==
    LET converted == [i \in 1..Len(geoms) |->
                        IF geoms[i].isGeometryData THEN geoms[i]
                        ELSE GeometryData(geoms[i].geometry)]
        t1 == getdescendant(t, path)
    IN  [tree |-> [t1 EXCEPT ![path] = [geometries |-> converted, transform |-> Identity]],
         queue |-> [q EXCEPT !.load = @ \cup {path}]]

\* CoreVisualizer._load up to the marks: the converted list replaces the
\* node's geometries, the path is marked for load.
_load(t, q, path, geoms) ==
    LET converted == [i \in 1..Len(geoms) |->
                        IF geoms[i].isGeometryData THEN geoms[i]
                        ELSE GeometryData(geoms[i].geometry)]
        t1 == getdescendant(t, path)
    IN  [tree |-> [t1 EXCEPT ![path].geometries = converted],
         queue |-> [q EXCEPT !.load = @ \cup {path}]]

\* Mutant: a draw of a path that is already draw-marked keeps the earlier
\* transform.
draw_firstWins(t, q, path, tform) ==
    LET t1 == getdescendant(t, path)
    IN  [tree |-> IF path \in q.draw THEN t1 ELSE [t1 EXCEPT ![path].transform = tform],
         queue |-> [q EXCEPT !.draw = @ \cup {path}]]

\* CoreVisualizer.draw up to the marks.
draw(t, q, path, tform) ==
    LET t1 == getdescendant(t, path)
    IN  [tree |-> [t1 EXCEPT ![path].transform = tform],
         queue |-> [q EXCEPT !.draw = @ \cup {path}]]

\* CoreVisualizer.delete up to the marks; del raises KeyError when the
\* parent has no such child.
delete(t, q, path) ==
    IF path = RootPath
    THEN [tree |-> NewTree, queue |-> [q EXCEPT !.delete = @ \cup {path}],
          err |-> "none"]
    ELSE LET t1 == getdescendant(t, SubSeq(path, 1, Len(path) - 1))
         IN  IF path \in DOMAIN t1
             THEN [tree |-> delChild(t1, path),
                   queue |-> [q EXCEPT !.delete = @ \cup {path}], err |-> "none"]
             ELSE [tree |-> t1, queue |-> q, err |-> "KeyError"]

\* What a successful send takes out of the unsent status = 1 marks.
Flushed(out) == IF out.sent = 1 THEN DrawPaths(out.msg) ELSE {}

Load(path, geomdata) ==
    /\ nops < MaxOps
    /\ LET m == _load(tree, queue, path, load_normalize(geomdata))
       IN  \E out \in _maybe_publish(m.tree, m.queue, publish_immediately, link_up) :
             /\ tree' = out.tree
             /\ queue' = out.queue
             /\ last' = [NoCall EXCEPT !.op = "load", !.path = path, !.geom = geomdata,
                                       !.immediate = publish_immediately, !.pending = resync,
                                       !.err = out.err, !.sent = out.sent, !.msg = out.msg]
             /\ walked' = walked \cup {path} \cup out.walked
             /\ resync' = resync \ Flushed(out)
    /\ targeted' = targeted \cup {path}
    /\ twice' = NoTwice
    /\ nops' = nops + 1
    /\ UNCHANGED <<publish_immediately, handler_thread, link_up, fg, bg, lost, handles, started>>

Draw(path, tform) ==
    /\ nops < MaxOps
    /\ LET m == draw(tree, queue, path, tform)
       IN  \E out \in _maybe_publish(m.tree, m.queue, publish_immediately, link_up) :
             /\ tree' = out.tree
             /\ queue' = out.queue
             /\ last' = [NoCall EXCEPT !.op = "draw", !.path = path, !.tform = tform,
                                       !.immediate = publish_immediately, !.pending = resync,
                                       !.err = out.err, !.sent = out.sent, !.msg = out.msg]
             /\ walked' = walked \cup {path} \cup out.walked
             /\ resync' = resync \ Flushed(out)
    /\ targeted' = targeted \cup {path}
    /\ twice' = IF last.op = "draw" /\ last.path = path
                THEN [stage |-> "drawn", path |-> path, first |-> last.tform,
                      second |-> tform,
                      batched |-> ~last.immediate /\ ~publish_immediately]
                ELSE NoTwice
    /\ nops' = nops + 1
    /\ UNCHANGED <<publish_immediately, handler_thread, link_up, fg, bg, lost, handles, started>>

Delete(path) ==
    /\ nops < MaxOps
    /\ LET m == delete(tree, queue, path)
           parent == IF path = RootPath THEN {} ELSE {SubSeq(path, 1, Len(path) - 1)}
           gone == IF m.err = "none" THEN Below(path, Paths) ELSE {}
       IN  \E out \in (IF m.err = "none"
                        THEN _maybe_publish(m.tree, m.queue, publish_immediately, link_up)
                        ELSE {[tree |-> m.tree, queue |-> m.queue, err |-> m.err,
                               sent |-> 0, msg |-> EmptyMsg, walked |-> {}]}) :
             /\ tree' = out.tree
             /\ queue' = out.queue
             /\ last' = [NoCall EXCEPT !.op = "delete", !.path = path,
                                       !.immediate = publish_immediately, !.pending = resync,
                                       !.err = out.err, !.sent = out.sent, !.msg = out.msg]
             /\ walked' = ((walked \cup parent) \ gone) \cup out.walked
             /\ resync' = resync \ Flushed(out)
             /\ targeted' = targeted \ gone
    /\ twice' = NoTwice
    /\ nops' = nops + 1
    /\ UNCHANGED <<publish_immediately, handler_thread, link_up, fg, bg, lost, handles, started>>

\* An explicit CoreVisualizer.publish() by the client.
Publish ==
    /\ nops < MaxOps
    /\ \E out \in publish(tree, queue, link_up) :
             /\ tree' = out.tree
             /\ queue' = out.queue
             /\ last' = [NoCall EXCEPT !.op = "publish",
                                       !.immediate = publish_immediately, !.pending = resync,
                                       !.err = out.err, !.sent = out.sent, !.msg = out.msg]
             /\ walked' = walked \cup out.walked
             /\ resync' = resync \ Flushed(out)
    /\ twice' = IF twice.stage = "drawn" THEN [twice EXCEPT !.stage = "published"]
                ELSE NoTwice
    /\ nops' = nops + 1
    /\ UNCHANGED <<publish_immediately, handler_thread, link_up, targeted, fg, bg, lost, handles, started>>

\* The client switches between immediate and batched publishing.
SetPublishImmediately(b) ==
    /\ publish_immediately # b
    /\ publish_immediately' = b
    /\ UNCHANGED <<tree, queue, handler_thread, last, nops, link_up, walked, targeted,
                   resync, twice, fg, bg, lost, handles, started>>

\* The transport goes down or comes back: lcm.publish raises while it is down.
TransportChanges ==
    /\ nops < MaxOps
    /\ link_up' = ~link_up
    /\ nops' = nops + 1
    /\ UNCHANGED <<tree, queue, publish_immediately, handler_thread, last,
                   walked, targeted, resync, twice, fg, bg, lost, handles, started>>

\* ------------------------------------------------------------------ responses
Statuses == {0, 1, 2}

\* Mutant: a resync marks the paths for draw only.
_handle_response_drawOnly(t, q, status) ==
    IF status = 0
    THEN [queue |-> q, err |-> "none"]
    ELSE IF status = 1
    THEN [queue |-> [q EXCEPT !.draw = @ \cup descendants(t)], err |-> "none"]
    ELSE [queue |-> q, err |-> "ValueError"]

\* Mutant: every non-zero status marks the tree before the status is checked.
_handle_response_marksFirst(t, q, status) ==
    IF status = 0
    THEN [queue |-> q, err |-> "none"]
    ELSE [queue |-> [q EXCEPT !.load = @ \cup descendants(t),
                              !.draw = @ \cup descendants(t)],
          err |-> IF status = 1 THEN "none" ELSE "ValueError"]

\* Mutant: a resync replaces the load and draw sets by the tree's paths.
_handle_response_replaces(t, q, status) ==
    IF status = 0
    THEN [queue |-> q, err |-> "none"]
    ELSE IF status = 1
    THEN [queue |-> [q EXCEPT !.load = descendants(t), !.draw = descendants(t)],
          err |-> "none"]
    ELSE [queue |-> q, err |-> "ValueError"]

\* CoreVisualizer._handle_response on a decoded response.
_handle_response(t, q, status) ==
    IF status = 0
    THEN [queue |-> q, err |-> "none"]
    ELSE IF status = 1
    THEN [queue |-> [q EXCEPT !.load = @ \cup descendants(t),
                              !.draw = @ \cup descendants(t)],
          err |-> "none"]
    ELSE [queue |-> q, err |-> "ValueError"]

\* Mutant: a new thread is started unless one is running, so also after the
\* loop has exited.
start_handler_unlessRunning(thread) ==
    IF thread = "running" THEN [thread |-> thread, starts |-> 0]
    ELSE [thread |-> "running", starts |-> 1]

\* CoreVisualizer.start_handler: the thread attribute afterwards, and how many
\* threads the call started.
start_handler(thread) ==
    IF thread # "none" THEN [thread |-> thread, starts |-> 0]
    ELSE [thread |-> "running", starts |-> 1]

StartHandler ==
    /\ handler_thread' = start_handler(handler_thread).thread
    /\ started' = started + start_handler(handler_thread).starts
    /\ UNCHANGED <<tree, queue, publish_immediately, last, nops, link_up, walked,
                   targeted, resync, twice, fg, bg, lost, handles>>

\* _handler_loop: `while True: self.lcm.handle()`; an exception raised by the
\* callback leaves the loop and the thread ends.
_handler_loop(thread, err) == IF err = "none" THEN thread ELSE "dead"

\* One iteration of the listener thread's loop delivers a response.
HandlerLoop(status) ==
    /\ handler_thread = "running"
    /\ nops < MaxOps
    /\ LET r == _handle_response(tree, queue, status)
       IN  /\ queue' = r.queue
           /\ last' = [NoCall EXCEPT !.op = "response", !.status = status,
                                     !.immediate = publish_immediately, !.pending = resync,
                                     !.err = r.err]
           /\ handler_thread' = _handler_loop(handler_thread, r.err)
           /\ resync' = IF status = 1 THEN resync \cup descendants(tree) ELSE resync
    /\ twice' = NoTwice
    /\ nops' = nops + 1
    /\ UNCHANGED <<tree, publish_immediately, link_up, walked, targeted, fg, bg, lost, handles, started>>

\* ------------------------------------------------------------------ specification
Next ==
    \/ \E path \in Paths, g \in GeomInputs : Load(path, g)
    \/ \E path \in Paths, tf \in DrawTransforms : Draw(path, tf)
    \/ \E path \in Paths : Delete(path)
    \/ Publish
    \/ TransportChanges
    \/ \E b \in BOOLEAN : SetPublishImmediately(b)
    \/ StartHandler
    \/ \E status \in Statuses : HandlerLoop(status)

Spec == Init /\ [][Next]_vars

\* ------------------------------------------------------------------ interleaved runs
\* The listener thread and the foreground share tree and queue without a lock.
\* Here the foreground's publish and the listener's _handle_response advance
\* one statement at a time, so that the other thread can run in between:
\*   publish:           serialize_queue() | lcm.publish() | queue.empty()
\*   _handle_response:  tree.descendants() | the two adds, path by path
\* The histories walked, targeted and twice belong to the sequential runs and
\* are left alone here, like the client's handles and the count of threads.
SeqHistory == <<walked, targeted, twice, handles, started>>

\* A mutation call up to its marks; _maybe_publish then enters publish.
ConcMutate(call, m) ==
    /\ fg.pc = "idle"
    /\ nops < MaxOps
    /\ tree' = m.tree
    /\ queue' = m.queue
    /\ last' = call
    /\ fg' = [fg EXCEPT !.pc = IF m.err = "none" /\ publish_immediately
                                THEN "publish" ELSE "idle"]
    /\ nops' = nops + 1
    /\ UNCHANGED <<publish_immediately, handler_thread, link_up, resync, bg, lost,
                   SeqHistory>>

ConcLoad(path, geomdata) ==
    ConcMutate([NoCall EXCEPT !.op = "load", !.path = path, !.geom = geomdata,
                              !.immediate = publish_immediately],
               _load(tree, queue, path, load_normalize(geomdata)) @@ [err |-> "none"])

ConcDraw(path, tform) ==
    ConcMutate([NoCall EXCEPT !.op = "draw", !.path = path, !.tform = tform,
                              !.immediate = publish_immediately],
               draw(tree, queue, path, tform) @@ [err |-> "none"])

ConcDelete(path) ==
    ConcMutate([NoCall EXCEPT !.op = "delete", !.path = path,
                              !.immediate = publish_immediately,
                              !.err = delete(tree, queue, path).err],
               delete(tree, queue, path))

\* The client calls publish().
ConcPublish ==
    /\ fg.pc = "idle"
    /\ nops < MaxOps
    /\ fg' = [fg EXCEPT !.pc = "publish"]
    /\ last' = [NoCall EXCEPT !.op = "publish", !.immediate = publish_immediately]
    /\ nops' = nops + 1
    /\ UNCHANGED <<tree, queue, publish_immediately, handler_thread, link_up, resync,
                   bg, lost, SeqHistory>>

\* publish: `if not self.queue.isempty(): data = self.serialize_queue()`
ConcSerialize ==
    /\ fg.pc = "publish"
    /\ IF isempty(queue)
       THEN /\ fg' = FgIdle
            /\ UNCHANGED <<tree, last>>
       ELSE \E s \in serialize_queue(tree, queue) :
              /\ tree' = s.tree
              /\ fg' = IF s.err = "none" THEN [pc |-> "send", data |-> s.data]
                        ELSE FgIdle
              /\ last' = [last EXCEPT !.err = s.err]
    /\ UNCHANGED <<queue, publish_immediately, handler_thread, nops, link_up, resync,
                   bg, lost, SeqHistory>>

\* publish: `self.lcm.publish(...)`
ConcSend ==
    /\ fg.pc = "send"
    /\ fg' = IF link_up THEN [fg EXCEPT !.pc = "empty"] ELSE FgIdle
    /\ last' = IF link_up THEN [last EXCEPT !.sent = 1, !.msg = fg.data]
               ELSE [last EXCEPT !.err = "IOError", !.msg = fg.data]
    /\ resync' = IF link_up THEN resync \ DrawPaths(fg.data) ELSE resync
    /\ UNCHANGED <<tree, queue, publish_immediately, handler_thread, nops, link_up,
                   bg, lost, SeqHistory>>

\* publish: `self.queue.empty()`
ConcEmpty ==
    /\ fg.pc = "empty"
    /\ queue' = empty(queue)
    /\ lost' = lost \cup (resync \cap queue.draw)
    /\ resync' = resync \ queue.draw
    /\ fg' = FgIdle
    /\ UNCHANGED <<tree, publish_immediately, handler_thread, last, nops, link_up,
                   bg, SeqHistory>>

\* The listener receives a response: _handle_response up to the call of
\* tree.descendants().
ConcReceive(status) ==
    /\ handler_thread = "running"
    /\ bg.pc = "idle"
    /\ nops < MaxOps
    /\ bg' = IF status = 1 /\ descendants(tree) # {}
             THEN [pc |-> "marking", todo |-> descendants(tree)]
             ELSE BgIdle
    /\ handler_thread' = _handler_loop(handler_thread,
                                       _handle_response(tree, queue, status).err)
    /\ nops' = nops + 1
    /\ UNCHANGED <<tree, queue, publish_immediately, last, link_up, resync, fg, lost,
                   SeqHistory>>

\* _handle_response: one round of the loop, `self.queue.load.add(path)` and
\* `self.queue.draw.add(path)` (the list's order is the dictionaries' and is
\* left open).
ConcMark ==
    /\ bg.pc = "marking"
    /\ \E path \in bg.todo :
         /\ queue' = [queue EXCEPT !.load = @ \cup {path}, !.draw = @ \cup {path}]
         /\ resync' = resync \cup {path}
         /\ bg' = IF bg.todo = {path} THEN BgIdle
                  ELSE [bg EXCEPT !.todo = @ \ {path}]
    /\ UNCHANGED <<tree, publish_immediately, handler_thread, last, nops, link_up,
                   fg, lost, SeqHistory>>

NextConc ==
    \/ \E path \in Paths, g \in GeomInputs : ConcLoad(path, g)
    \/ \E path \in Paths, tf \in DrawTransforms : ConcDraw(path, tf)
    \/ \E path \in Paths : ConcDelete(path)
    \/ ConcPublish
    \/ ConcSerialize
    \/ ConcSend
    \/ ConcEmpty
    \/ TransportChanges
    \/ \E b \in BOOLEAN : SetPublishImmediately(b)
    \/ StartHandler
    \/ \E status \in Statuses : ConcReceive(status)
    \/ ConcMark

SpecConc == Init /\ [][NextConc]_vars

\* --------------------------------------------------------------- Visualizer handles
\* A client that works through Visualizer handles only: it indexes the handles
\* it holds, and loads, draws, deletes and starts the listener through them.
Names == {"a", "b", ""}

\* Visualizer.__getitem__
Visualizer_getitem(h, name) == Visualizer(Append(h.path, name), h.core)

Index(h, name) ==
    /\ Visualizer_getitem(h, name).path \in Paths
    /\ Visualizer_getitem(h, name) \notin handles
    /\ handles' = handles \cup {Visualizer_getitem(h, name)}
    /\ UNCHANGED <<tree, queue, publish_immediately, handler_thread, last, nops, link_up,
                   walked, targeted, resync, twice, fg, bg, lost, started>>

\* Visualizer.load, Visualizer.draw, Visualizer.delete
HandleLoad(h, geomdata) == h.core = TheCore /\ Load(h.path, geomdata)
HandleDraw(h, tform) == h.core = TheCore /\ Draw(h.path, tform)
HandleDelete(h) == h.core = TheCore /\ Delete(h.path)

\* Visualizer.start_handler, recorded as a call of the client.
HandleStartHandler(h) ==
    /\ h.core = TheCore
    /\ nops < MaxOps
    /\ handler_thread' = start_handler(handler_thread).thread
    /\ started' = started + start_handler(handler_thread).starts
    /\ last' = [NoCall EXCEPT !.op = "start_handler", !.path = h.path,
                              !.immediate = publish_immediately, !.pending = resync,
                              !.thread = handler_thread]
    /\ twice' = NoTwice
    /\ nops' = nops + 1
    /\ UNCHANGED <<tree, queue, publish_immediately, link_up, walked, targeted, resync,
                   fg, bg, lost, handles>>

NextHandle ==
    \/ \E h \in handles, name \in Names : Index(h, name)
    \/ \E h \in handles, g \in GeomInputs : HandleLoad(h, g)
    \/ \E h \in handles, tf \in DrawTransforms : HandleDraw(h, tf)
    \/ \E h \in handles : HandleDelete(h)
    \/ \E h \in handles : HandleStartHandler(h)
    \/ \E status \in Statuses : HandlerLoop(status)
    \/ TransportChanges

SpecHandle == Init /\ [][NextHandle]_vars

\* ------------------------------------------------------------------ properties
Mutations == {"load", "draw", "delete"}

PrefixClosure(paths) == UNION {Prefixes(p) : p \in paths} \ {RootPath}

DrawRecords(msg, path) == {r \in msg.draw : r.path = path}

\* C1 (as claimed): after load/draw/delete calls, tree.descendants() is exactly
\* the set of load/draw targets not since deleted directly or through an
\* ancestor.
C1_DescendantsAreLiveTargets ==
    last.err = "none" => descendants(tree) = targeted \ {RootPath}

\* C1 (amended): tree.descendants() is exactly the set of non-empty prefixes of
\* the paths that getdescendant has reached (a load or draw target, the parent
\* of a delete target, a load- or draw-marked path at a flush) and that have
\* not since been deleted directly or through an ancestor; in particular no
\* live load/draw target is missing.
C1_DescendantsAreWalkedPrefixes ==
    /\ descendants(tree) = PrefixClosure(walked)
    /\ targeted \ {RootPath} \subseteq descendants(tree)

C1_Witness ==
    /\ last.op = "delete"
    /\ last.err = "none"
    /\ \E p \in descendants(tree) : p \notin targeted
    /\ \E p \in descendants(tree) : p \in targeted

\* C2 (as claimed): the message sent by the next publish after a status = 1
\* response holds a load record and a draw record for every path that was in
\* the tree when the response was handled.
C2_ResyncSendsLoadAndDraw ==
    last.sent = 1 =>
        \A p \in last.pending : p \in DrawPaths(last.msg) /\ p \in LoadPaths(last.msg)

\* C2 (amended): the next message sent after a status = 1 response holds a
\* draw record for every path that was in the tree when the response was
\* handled, and a load record for each of them whose node holds a non-empty
\* geometry list at flush time.
C2_ResyncSendsDrawAndNonEmptyLoad ==
    last.sent = 1 =>
        \A p \in last.pending :
            /\ p \in DrawPaths(last.msg)
            /\ p \in DOMAIN tree
            /\ tree[p].geometries # << >> => p \in LoadPaths(last.msg)

C2_Witness ==
    /\ last.op = "publish"
    /\ last.sent = 1
    /\ \E p \in last.pending : p \in LoadPaths(last.msg)
    /\ \E p \in last.pending : p \notin LoadPaths(last.msg)

C4_DeleteIsTotal ==
    (last.op = "delete" /\ last.path \in WellFormedPaths) =>
        /\ last.err # "KeyError"
        /\ last.err = "none" =>
              /\ Below(last.path, DOMAIN tree) \subseteq {RootPath}
              /\ last.path = RootPath => tree = NewTree
              /\ last.path \in queue.delete \cup DeletePaths(last.msg)

\* C5: a response whose status is neither 0 nor 1 raises an error and leaves
\* the tree and the three queue sets as they were.
C5_UnknownStatusRaisesAndChangesNothing ==
    [][(nops' # nops /\ last'.op = "response" /\ last'.status \notin {0, 1})
         => (last'.err = "ValueError" /\ tree' = tree /\ queue' = queue)]_vars

C5_Witness ==
    /\ last.op = "response"
    /\ last.status = 2
    /\ last.err = "ValueError"
    /\ descendants(tree) # {}
    /\ ~isempty(queue)

\* C7 (as claimed): after draw(p, A), draw(p, B) and one publish(), that publish
\* sends a message with exactly one draw record for p, carrying B.
C7_PublishSendsLastDraw ==
    (twice.stage = "published" /\ last.err = "none") =>
        /\ last.sent = 1
        /\ DrawRecords(last.msg, twice.path) =
              {[path |-> twice.path, transform |-> serialize_transform(twice.second)]}

\* C7 (amended): with immediate-publish mode off, after draw(p, A), draw(p, B)
\* and one publish() that completes without error, that publish sends a
\* message with exactly one draw record for p, carrying B.
C7_BatchedPublishSendsLastDraw ==
    (twice.stage = "published" /\ twice.batched /\ last.err = "none") =>
        /\ last.sent = 1
        /\ DrawRecords(last.msg, twice.path) =
              {[path |-> twice.path, transform |-> serialize_transform(twice.second)]}

C7_Witness ==
    /\ twice.stage = "published"
    /\ twice.batched
    /\ twice.first # twice.second
    /\ last.op = "publish"
    /\ last.sent = 1

\* C8: a load, draw or delete given a malformed path or an unrecognized
\* geometry value fails at that call with an InvalidArgument error and leaves
\* the tree and the queue unchanged.
InvalidCall(call) ==
    /\ call.op \in Mutations
    /\ \/ call.path \notin WellFormedPaths
       \/ \E i \in 1..Len(call.geom.items) :
              call.geom.items[i].geometry \notin PrimitiveTypes

C8_InvalidArgumentFailsFast ==
    [][(nops' # nops /\ InvalidCall(last')) =>
         (last'.err = "InvalidArgument" /\ tree' = tree /\ queue' = queue)]_vars

\* C9: once started, the listener keeps handling responses whatever the
\* statuses of the earlier ones.
C9_ListenerKeepsRunning ==
    handler_thread # "none" => handler_thread = "running"

\* C10: load never changes the transform of a node; after draw(p, T) then
\* load(p, G) the transform at p is still T.
C10_LoadKeepsTransforms ==
    [][(nops' # nops /\ last'.op = "load") =>
         /\ \A p \in DOMAIN tree :
               p \in DOMAIN tree' /\ tree'[p].transform = tree[p].transform
         /\ (last.op = "draw" /\ last.path = last'.path) =>
               tree'[last.path].transform = last.tform]_vars

C10_Witness ==
    /\ last.op = "load"
    /\ last.geom.items # << >>
    /\ last.path \in DOMAIN tree
    /\ tree[last.path].transform # Identity
    /\ tree[last.path].geometries # << >>

\* C6: accesses of the listener and of the foreground are serialized: no load
\* or draw mark that the response handler adds for a status = 1 response is
\* removed from the queue before a published message has included it.
C6_NoResyncMarkLost == lost = {}

\* The step is a call of op, or the handling of a response, and no change of
\* the transport.
Called(op) == nops' # nops /\ link_up' = link_up /\ last'.op = op

\* C11: delete(p) on a tree that contains p removes exactly p and the paths
\* below p from tree.descendants(), and every other node is still there with
\* the geometries and the transform it had.
C11_DeleteRemovesExactlySubtree ==
    [][(Called("delete") /\ last'.path \in DOMAIN tree) =>
         /\ descendants(tree') = descendants(tree) \ Below(last'.path, Paths)
         /\ \A q \in DOMAIN tree \ Below(last'.path, Paths) :
               q \in DOMAIN tree' /\ tree'[q] = tree[q]]_vars

\* The load-marked paths whose node holds a geometry when the queue is flushed.
NonEmptyLoads(t, q) == {p \in q.load : p \in DOMAIN t /\ t[p].geometries # << >>}

\* C14: publish() with an empty queue sends nothing and changes nothing;
\* publish() with a non-empty queue over a transport whose send succeeds sends
\* one message and leaves the three queue sets empty; only a publish removes a
\* path from a queue set.
C14_PublishDrainsQueue ==
    [][/\ (Called("publish") /\ isempty(queue)) =>
            (last'.sent = 0 /\ tree' = tree /\ queue' = queue)
       /\ (Called("publish") /\ ~isempty(queue) /\ link_up) =>
            (last'.sent = 1 /\ isempty(queue'))
       /\ (\E k \in {"delete", "load", "draw"} : ~(queue[k] \subseteq queue'[k])) =>
            (nops' # nops /\ last'.op \in Mutations \cup {"publish"}
               /\ last'.sent = 1)]_vars

C16_ResyncOnlyAddsMarks ==
    [][(Called("response") /\ last'.status \in {0, 1}) =>
         /\ tree' = tree
         /\ last'.sent = 0
         /\ last'.err = "none"
         /\ queue'.delete = queue.delete
         /\ queue'.load =
               IF last'.status = 1 THEN queue.load \cup descendants(tree) ELSE queue.load
         /\ queue'.draw =
               IF last'.status = 1 THEN queue.draw \cup descendants(tree) ELSE queue.draw]_vars

C16_Witness ==
    /\ last.op = "response"
    /\ last.status = 1
    /\ queue.delete # {}
    /\ descendants(tree) # {}
    /\ \E p \in queue.draw : p \notin descendants(tree)
    /\ queue.load # queue.draw

\* C17: in immediate mode, when the transport's sends succeed, every load,
\* draw and delete call has sent one message when it returns and has left the
\* queue empty.
C17_ImmediateCallSendsOneMessage ==
    (last.op \in Mutations /\ last.immediate /\ last.err # "IOError") =>
        (last.sent = 1 /\ isempty(queue))

\* C18: publish() does not change the tree: the paths of tree.descendants()
\* and every node's geometries and transform are the same before and after.
C18_PublishKeepsTree ==
    [][(Called("publish")) => tree' = tree]_vars

\* C12: however often start_handler() is called on one synchronizer, at most
\* one listener thread is started; a call made while a listener is running
\* starts nothing and changes no state.
C12_AtMostOneListenerStarted ==
    [][/\ started' <= 1
       /\ (Called("start_handler") /\ last'.thread = "running") =>
            /\ started' = started
            /\ handler_thread' = handler_thread
            /\ tree' = tree
            /\ queue' = queue
            /\ publish_immediately' = publish_immediately]_vars

C12_Witness ==
    /\ last.op = "start_handler"
    /\ last.thread = "running"
    /\ handler_thread = "running"
    /\ started = 1

\* C13: indexing a handle by a child name gives a handle on the same
\* synchronizer with the path extended by the name, and changes neither tree
\* nor queue and sends nothing; the tree changes only in a load, draw or delete
\* call.
C13_TreeChangesOnlyInMutations ==
    [][/\ handles' # handles =>
            /\ \E h \in handles, name \in Names :
                  handles' = handles \cup {[core |-> h.core, path |-> Append(h.path, name)]}
            /\ tree' = tree /\ queue' = queue /\ last' = last
       /\ tree' # tree =>
            (nops' # nops /\ link_up' = link_up /\ last'.op \in Mutations)]_vars

====
